---- MODULE Spec2Model ----
(***************************************************************************)
(* A model of biofile: Biofile (file.py), BiofileGroup (group.py) and      *)
(* MatchedPrefixGroup (matched_prefix.py).                                 *)
(*                                                                         *)
(* A python str is a sequence of one-character strings, so that lower(),   *)
(* substring tests and pathlib's suffix rules are computed, not assumed.   *)
(* A Path is its file name.  The filesystem maps a path to one of          *)
(* "missing", "dir", "empty" (a zero-size file), "nonempty".               *)
(***************************************************************************)
EXTENDS Integers, Sequences, FiniteSets, TLC

VARIABLES fs, bf, grp, mpg, res

vars == <<fs, bf, grp, mpg, res>>

(***************************************************************************)
(* Bounds.                                                                 *)
(***************************************************************************)
\* the longest path sequence given to BiofileGroup
MaxGroupLen == 2
\* the most groups given to MatchedPrefixGroup
MaxGroups == 3

(***************************************************************************)
(* python str and pathlib.                                                 *)
(***************************************************************************)
Upper == <<"A","B","C","D","E","F","G","H","I","J","K","L","M",
           "N","O","P","Q","R","S","T","U","V","W","X","Y","Z">>
Lower == <<"a","b","c","d","e","f","g","h","i","j","k","l","m",
           "n","o","p","q","r","s","t","u","v","w","x","y","z">>

\* a python list: the comprehension f is evaluated once, into a sequence
List(f) == <<>> \o f

\* str.lower() on one character
lower_char(c) ==
    IF \E i \in 1..26 : Upper[i] = c
    THEN Lower[CHOOSE i \in 1..26 : Upper[i] = c]
    ELSE c

\* str.lower()
lower(s) == List([i \in 1..Len(s) |-> lower_char(s[i])])

\* `sub in s` on python str
contains(s, sub) ==
    \E i \in 1..(Len(s) + 1) :
        /\ i + Len(sub) - 1 <= Len(s)
        /\ SubSeq(s, i, i + Len(sub) - 1) = sub

\* str.rfind('.') + 1 (0 when there is no dot)
rfind_dot(s) ==
    IF \E i \in 1..Len(s) : s[i] = "."
    THEN CHOOSE i \in 1..Len(s) :
            /\ s[i] = "."
            /\ \A j \in (i + 1)..Len(s) : s[j] # "."
    ELSE 0

\* str.find('.') + 1 (0 when there is no dot)
find_dot(s) ==
    IF \E i \in 1..Len(s) : s[i] = "."
    THEN CHOOSE i \in 1..Len(s) :
            /\ s[i] = "."
            /\ \A j \in 1..(i - 1) : s[j] # "."
    ELSE 0

\* str.split('.')
RECURSIVE split_dots(_)
split_dots(s) ==
    LET i == find_dot(s)
    IN IF i = 0 THEN <<s>>
       ELSE <<SubSeq(s, 1, i - 1)>> \o split_dots(SubSeq(s, i + 1, Len(s)))

\* str.lstrip('.')
RECURSIVE lstrip_dots(_)
lstrip_dots(s) ==
    IF s # <<>> /\ s[1] = "." THEN lstrip_dots(Tail(s)) ELSE s

\* ''.join(parts)
RECURSIVE join(_)
join(parts) ==
    IF parts = <<>> THEN <<>> ELSE Head(parts) \o join(Tail(parts))

\* PurePath.suffix: name[i:] where i = name.rfind('.'), if 0 < i < len - 1
suffix(name) ==
    LET i == rfind_dot(name)
    IN IF 1 < i /\ i < Len(name) THEN SubSeq(name, i, Len(name)) ELSE <<>>

\* PurePath.suffixes
suffixes(name) ==
    IF name # <<>> /\ name[Len(name)] = "." THEN <<>>
    ELSE LET parts == Tail(split_dots(lstrip_dots(name)))
         IN List([i \in 1..Len(parts) |-> <<".">> \o parts[i]])

\* python's seq[-2:]
last_two(seq) ==
    IF Len(seq) <= 2 THEN seq ELSE SubSeq(seq, Len(seq) - 1, Len(seq))

(***************************************************************************)
(* Collaborators from fmbiopy, as biofile uses them.                       *)
(***************************************************************************)
\* the state of path p: what is not in the filesystem is missing
stat(f, p) == IF p \in DOMAIN f THEN f[p] ELSE "missing"

\* fmpaths.is_empty: the size of the file is < 1; raises FileNotFoundError
\* for a missing path (test_if_files_dont_exist_raise_err)
is_empty(f, p) ==
    CASE stat(f, p) = "missing" -> "FileNotFoundError"
      [] stat(f, p) = "empty" -> "True"
      [] OTHER -> "False"

\* fmpaths.add_suffix: the path with the suffix appended to its name
add_suffix(p, suf) == p \o suf

\* fmpaths.prefix: the part of the file name before the first dot
prefix(p) == Head(split_dots(p))

\* fmcheck.all_equal: every item equals the first
all_equal(items) == \A i \in 1..Len(items) : items[i] = items[1]

(***************************************************************************)
(* The Biofile classes: their `extensions` attribute.                      *)
(***************************************************************************)
ANY == <<"A","N","Y">>

extensions(cls) ==
    CASE cls \in {"Fastq", "FwdFastq", "RevFastq", "UnpairedFastq"} ->
            {<<".","f","a","s","t","q">>, <<".","f","q">>,
             <<".","f","a","s","t","q",".","g","z">>, <<".","f","q",".","g","z">>}
      [] cls \in {"Fasta", "Adapters"} ->
            {<<".","f","a","s","t","a">>, <<".","f","a">>,
             <<"m","f","a">>, <<"f","n","a">>}
      [] cls = "SamtoolsFAIndex" -> {<<".","f","a","i">>}
      [] cls = "Sam" -> {<<".","s","a","m">>}
      [] cls = "Bam" -> {<<".","b","a","m">>}
      [] cls = "Gzipped" -> {<<".","g","z">>}
      [] cls \in {"TSV", "CentrifugeOutput", "Hits"} -> {<<".","t","s","v">>}
      [] cls \in {"Txt", "Hist"} -> {<<".","t","x","t">>}
      [] cls \in {"Html", "FastQCReport"} -> {<<".","h","t","m","l">>}
      [] cls = "Zip" -> {<<".","z","i","p">>}
      [] OTHER -> {ANY}

\* the value of the gzipped parameter that reaches Biofile.__init__
gzipped_args(cls) ==
    CASE cls = "Gzipped" -> {TRUE}
      [] cls = "Unzipped" -> {FALSE}
      [] OTHER -> BOOLEAN

\* CentrifugeDB.__init__: the paths of the three index files
idx_paths(cls, path) ==
    IF cls = "CentrifugeDB"
    THEN List([i \in 1..3 |-> add_suffix(path, <<".", ToString(i), ".", "c", "f">>)])
    ELSE <<>>

\* Biofile._get_extension
get_extension(path, gzipped) ==
    IF gzipped THEN join(last_two(suffixes(path))) ELSE suffix(path)

(***************************************************************************)
(* The checks of Biofile.validate.  A check is "ok" or the exception it    *)
(* raises.  b is the object: cls, path, gzipped, possibly_empty,           *)
(* extension, idx, validated.                                              *)
(***************************************************************************)
check_not_dir(f, b) ==
    IF stat(f, b.path) = "dir" THEN "TypeError" ELSE "ok"

\* CentrifugeDB._check_file_not_empty: the loop over self._idx
\* mutant: only the first index file is looked at
check_idx_not_empty_first(f, idx) ==
    IF idx = <<>> THEN "ok"
    ELSE LET e == is_empty(f, Head(idx))
         IN CASE e = "FileNotFoundError" -> "FileNotFoundError"
              [] e = "True" -> "EmptyFileError"
              [] OTHER -> "ok"

RECURSIVE check_idx_not_empty(_, _)
check_idx_not_empty(f, idx) ==
    IF idx = <<>> THEN "ok"
    ELSE LET e == is_empty(f, Head(idx))
         IN CASE e = "FileNotFoundError" -> "FileNotFoundError"
              [] e = "True" -> "EmptyFileError"
              [] OTHER -> check_idx_not_empty(f, Tail(idx))

\* mutant: possibly_empty is ignored
check_file_not_empty_always(f, b) ==
    IF b.cls = "CentrifugeDB" THEN check_idx_not_empty(f, b.idx)
    ELSE LET e == is_empty(f, b.path)
         IN CASE e = "FileNotFoundError" -> "FileNotFoundError"
              [] e = "True" -> "EmptyFileError"
              [] OTHER -> "ok"

check_file_not_empty(f, b) ==
    IF b.possibly_empty THEN "ok"
    ELSE IF b.cls = "CentrifugeDB" THEN check_idx_not_empty(f, b.idx)
    ELSE LET e == is_empty(f, b.path)
         IN CASE e = "FileNotFoundError" -> "FileNotFoundError"
              [] e = "True" -> "EmptyFileError"
              [] OTHER -> "ok"

\* mutant: the gzip check only looks at files declared gzipped
check_gzip_declared_only(b) ==
    IF b.cls = "Gzipped" THEN "ok"
    ELSE IF b.gzipped /\ ~contains(b.extension, <<".","g","z">>)
    THEN "GzipStatusError" ELSE "ok"

check_gzip(b) ==
    IF b.cls = "Gzipped" THEN "ok"
    ELSE IF b.gzipped
    THEN IF ~contains(b.extension, <<".","g","z">>) THEN "GzipStatusError" ELSE "ok"
    ELSE IF contains(b.extension, <<"g","z">>) THEN "GzipStatusError" ELSE "ok"

check_extension(b) ==
    IF b.cls = "Gzipped"
    THEN IF ~contains(lower(b.extension), <<".","g","z">>)
         THEN "FileExtensionError" ELSE "ok"
    ELSE IF extensions(b.cls) # {ANY} /\ lower(b.extension) \notin extensions(b.cls)
    THEN "FileExtensionError" ELSE "ok"

\* the first of the four results that is an exception
first_raise(r1, r2, r3, r4) ==
    IF r1 # "ok" THEN r1
    ELSE IF r2 # "ok" THEN r2
    ELSE IF r3 # "ok" THEN r3
    ELSE r4

\* mutant: the extension check runs before the gzip check
validate_extension_first(f, b) ==
    first_raise(check_not_dir(f, b), check_file_not_empty(f, b),
                check_extension(b), check_gzip(b))

\* Biofile.validate: "ok" (self.validated = True, returns True) or the
\* exception of the first check that raises
validate(f, b) ==
    first_raise(check_not_dir(f, b), check_file_not_empty(f, b),
                check_gzip(b), check_extension(b))

\* the object as Biofile.__init__ leaves it before it calls validate
new_biofile(cls, path, gzipped, possibly_empty) ==
    [cls |-> cls, path |-> path, gzipped |-> gzipped,
     possibly_empty |-> possibly_empty,
     extension |-> get_extension(path, gzipped),
     idx |-> idx_paths(cls, path), validated |-> FALSE]

\* Biofile.__init__: the exception validate raises, or the validated object
Biofile_init(f, cls, path, gzipped, possibly_empty) ==
    LET b == new_biofile(cls, path, gzipped, possibly_empty)
        r == validate(f, b)
    IN [outcome |-> r,
        obj |-> IF r = "ok" THEN [b EXCEPT !.validated = TRUE] ELSE [cls |-> "None"]]

\* Biofile.path: validate runs first when the object is not validated; the
\* field validates tells whether it ran
Biofile_path(f, b) ==
    LET r == IF b.validated THEN "ok" ELSE validate(f, b)
    IN [validates |-> ~b.validated, outcome |-> r,
        value |-> IF r = "ok" THEN b.path ELSE <<>>]

\* Biofile.name: as Biofile.path; a path of the model is its own file name
Biofile_name(f, b) ==
    LET r == IF b.validated THEN "ok" ELSE validate(f, b)
    IN [validates |-> ~b.validated, outcome |-> r,
        value |-> IF r = "ok" THEN b.path ELSE <<>>]

(***************************************************************************)
(* BiofileGroup (group.py).                                                *)
(***************************************************************************)
\* the first position of seq whose outcome is an exception, 0 if none
first_failure(outcomes) ==
    IF \E i \in 1..Len(outcomes) : outcomes[i] # "ok"
    THEN CHOOSE i \in 1..Len(outcomes) :
            /\ outcomes[i] # "ok"
            /\ \A j \in 1..(i - 1) : outcomes[j] = "ok"
    ELSE 0

check_paths_not_none(g) ==
    IF g.paths = <<>> THEN "ValueError" ELSE "ok"

\* mutant: each extension is compared with the class's accepted list, not
\* with the other extensions
check_extensions_accepted(g) ==
    IF \E i \in 1..Len(g.biofiles) :
          /\ extensions(g.filetype) # {ANY}
          /\ lower(g.biofiles[i].extension) \notin extensions(g.filetype)
    THEN "FileExtensionsNotSameError" ELSE "ok"

check_extensions_same(g) ==
    IF ~all_equal(List([i \in 1..Len(g.biofiles) |-> g.biofiles[i].extension]))
    THEN "FileExtensionsNotSameError" ELSE "ok"

\* the loop of BiofileGroup.validate: biofile.validate() for each biofile that
\* is not validated
validate_biofiles(f, g) ==
    LET outcomes == List([i \in 1..Len(g.biofiles) |->
                        IF g.biofiles[i].validated THEN "ok"
                        ELSE validate(f, g.biofiles[i])])
        k == first_failure(outcomes)
    IN IF k = 0 THEN "ok" ELSE outcomes[k]

\* BiofileGroup.validate
BiofileGroup_validate(f, g) ==
    first_raise(check_paths_not_none(g), check_extensions_same(g),
                validate_biofiles(f, g), "ok")

\* BiofileGroup._initialize_biofiles: filetype(p, *args, **kwargs) for each p
initialize_biofiles(f, paths, filetype, gzipped, possibly_empty) ==
    List([i \in 1..Len(paths) |->
            Biofile_init(f, filetype, paths[i], gzipped, possibly_empty)])

\* BiofileGroup.__init__ without the last line of BiofileGroup.validate
BiofileGroup_init_unvalidated(f, paths, filetype, gzipped, possibly_empty) ==
    LET made == initialize_biofiles(f, paths, filetype, gzipped, possibly_empty)
        k == first_failure(List([i \in 1..Len(made) |-> made[i].outcome]))
        g == [cls |-> "BiofileGroup", paths |-> paths, filetype |-> filetype,
              biofiles |-> List([i \in 1..Len(made) |-> made[i].obj]),
              validated |-> FALSE]
        r == IF k # 0 THEN made[k].outcome ELSE BiofileGroup_validate(f, g)
    IN [outcome |-> r,
        obj |-> IF r = "ok"
                THEN [cls |-> "BiofileGroup", paths |-> paths, filetype |-> filetype,
                      biofiles |-> List([i \in 1..Len(made) |->
                                       [made[i].obj EXCEPT !.validated = TRUE]]),
                      validated |-> FALSE,
                      names |-> List([i \in 1..Len(paths) |-> g.biofiles[i].path])]
                ELSE [cls |-> "None"]]

\* BiofileGroup.__init__: the exception raised, or the validated group
BiofileGroup_init(f, paths, filetype, gzipped, possibly_empty) ==
    LET made == initialize_biofiles(f, paths, filetype, gzipped, possibly_empty)
        k == first_failure(List([i \in 1..Len(made) |-> made[i].outcome]))
        g == [cls |-> "BiofileGroup", paths |-> paths, filetype |-> filetype,
              biofiles |-> List([i \in 1..Len(made) |-> made[i].obj]),
              validated |-> FALSE]
        r == IF k # 0 THEN made[k].outcome ELSE BiofileGroup_validate(f, g)
    IN [outcome |-> r,
        obj |-> IF r = "ok"
                THEN [cls |-> "BiofileGroup", paths |-> paths, filetype |-> filetype,
                      biofiles |-> List([i \in 1..Len(made) |->
                                       [made[i].obj EXCEPT !.validated = TRUE]]),
                      validated |-> TRUE,
                      names |-> List([i \in 1..Len(paths) |-> g.biofiles[i].path])]
                ELSE [cls |-> "None"]]

\* BiofileGroup.__len__
BiofileGroup_len(g) == Len(g.paths)

\* BiofileGroup.__getitem__ on a validated group
BiofileGroup_getitem(g, i) == g.paths[i]

\* BiofileGroup.__getitem__: validate runs first when the group is not
\* validated; the field validates tells whether it ran
BiofileGroup_getitem_call(f, g, i) ==
    LET r == IF g.validated THEN "ok" ELSE BiofileGroup_validate(f, g)
    IN [validates |-> ~g.validated, outcome |-> r,
        value |-> IF r = "ok" THEN BiofileGroup_getitem(g, i) ELSE <<>>]

\* BiofileGroup.biofiles: validate runs first when the group is not validated
BiofileGroup_biofiles(f, g) ==
    LET r == IF g.validated THEN "ok" ELSE BiofileGroup_validate(f, g)
    IN [validates |-> ~g.validated, outcome |-> r,
        value |-> IF r = "ok" THEN g.biofiles ELSE <<>>]

\* BiofileGroup.__eq__
BiofileGroup_eq(g, h) ==
    IF BiofileGroup_len(g) # BiofileGroup_len(h) THEN FALSE
    ELSE \A i \in 1..BiofileGroup_len(g) :
            BiofileGroup_getitem(g, i) = BiofileGroup_getitem(h, i)

(***************************************************************************)
(* MatchedPrefixGroup (matched_prefix.py).  m is the object: groups,       *)
(* validated.                                                              *)
(***************************************************************************)
\* mutant: a group is compared with the next group only
check_files_not_same_adjacent(m) ==
    IF \E i, j \in 1..Len(m.groups) :
          j = i + 1 /\ BiofileGroup_eq(m.groups[i], m.groups[j])
    THEN "DuplicateFilegroupError" ELSE "ok"

check_files_not_same(m) ==
    IF \E i, j \in 1..Len(m.groups) :
          i # j /\ BiofileGroup_eq(m.groups[i], m.groups[j])
    THEN "DuplicateFilegroupError" ELSE "ok"

check_lengths_match(m) ==
    IF ~all_equal(List([i \in 1..Len(m.groups) |-> BiofileGroup_len(m.groups[i])]))
    THEN "GroupLengthError" ELSE "ok"

check_same_file_prefix(m) ==
    LET prefixes == List([i \in 1..Len(m.groups) |->
                        List([k \in 1..Len(m.groups[i].paths) |->
                            prefix(m.groups[i].paths[k])])])
    IN IF ~all_equal(prefixes) THEN "PrefixMatchError" ELSE "ok"

\* the loop of MatchedPrefixGroup.validate: group.validate() for each group,
\* unless the object is validated already
validate_groups(f, m) ==
    IF m.validated THEN "ok"
    ELSE LET outcomes == List([i \in 1..Len(m.groups) |->
                             BiofileGroup_validate(f, m.groups[i])])
             k == first_failure(outcomes)
         IN IF k = 0 THEN "ok" ELSE outcomes[k]

\* mutant: the prefixes are compared before the lengths
MatchedPrefixGroup_validate_prefix_first(f, m) ==
    first_raise(check_files_not_same(m), check_same_file_prefix(m),
                check_lengths_match(m), validate_groups(f, m))

\* MatchedPrefixGroup.validate
MatchedPrefixGroup_validate(f, m) ==
    first_raise(check_files_not_same(m), check_lengths_match(m),
                check_same_file_prefix(m), validate_groups(f, m))

\* MatchedPrefixGroup.__init__: the exception raised, or the validated object
MatchedPrefixGroup_init(f, groups) ==
    LET m == [cls |-> "MatchedPrefixGroup", groups |-> groups, validated |-> FALSE]
        r == MatchedPrefixGroup_validate(f, m)
    IN [outcome |-> r,
        obj |-> IF r = "ok" THEN [m EXCEPT !.validated = TRUE] ELSE [cls |-> "None"]]

\* MatchedPrefixGroup.__len__ counting the member groups
MatchedPrefixGroup_len_of_groups(m) ==
    IF Len(m.groups) = 0
    THEN [outcome |-> "IndexError", value |-> 0]
    ELSE [outcome |-> "ok", value |-> Len(m.groups)]

\* MatchedPrefixGroup.__len__: the length of the first member group, which
\* an empty list of groups does not have
MatchedPrefixGroup_len(m) ==
    IF Len(m.groups) = 0
    THEN [outcome |-> "IndexError", value |-> 0]
    ELSE [outcome |-> "ok", value |-> BiofileGroup_len(m.groups[1])]

\* MatchedPrefixGroup.__getitem__: g[item] of every member group in turn; a
\* position past the end of a member group raises IndexError
MatchedPrefixGroup_getitem(f, m, i) ==
    LET items == List([k \in 1..Len(m.groups) |->
                        IF i > BiofileGroup_len(m.groups[k])
                        THEN [validates |-> FALSE, outcome |-> "IndexError",
                              value |-> <<>>]
                        ELSE BiofileGroup_getitem_call(f, m.groups[k], i)])
        n == first_failure(List([k \in 1..Len(items) |-> items[k].outcome]))
    IN IF n # 0
       THEN [outcome |-> items[n].outcome, value |-> <<>>]
       ELSE [outcome |-> "ok",
             value |-> List([k \in 1..Len(items) |-> items[k].value])]

(***************************************************************************)
(* State.                                                                  *)
(***************************************************************************)
None == [cls |-> "None"]
NoRes == [op |-> "none"]

S_a_fq == <<"a",".","f","q">>
S_a_fq_gz == <<"a",".","f","q",".","g","z">>
S_a_FQ_GZ == <<"a",".","F","Q",".","G","Z">>
S_a_fa == <<"a",".","f","a">>
S_db == <<"d","b">>

\* the paths a single Biofile is made of
FileNames == {S_a_fq, S_a_fq_gz, S_a_FQ_GZ, S_a_fa, S_db}

\* the classes a single Biofile is made from
FileClasses == {"Biofile", "Fastq", "Fasta", "Gzipped", "Unzipped", "CentrifugeDB"}

FsStates == {"missing", "dir", "empty", "nonempty"}

\* the files that can exist in a run about path p: p, and for the database
\* name its index files
World(p) ==
    IF p = S_db THEN {p} \cup {idx_paths("CentrifugeDB", p)[i] : i \in 1..3}
    ELSE {p}

\* a directory is only ever made at the path itself
FsStatesOf(p) == IF p \in FileNames THEN FsStates ELSE FsStates \ {"dir"}

InitFile ==
    /\ \E p \in FileNames :
         fs \in {f \in [World(p) -> FsStates] : \A q \in World(p) : f[q] \in FsStatesOf(q)}
    /\ bf = None
    /\ grp = None
    /\ mpg = None
    /\ res = NoRes

\* the object after an accessor that validated it, when one did
accessed(g, r) ==
    IF r.validates /\ r.outcome = "ok" THEN [g EXCEPT !.validated = TRUE] ELSE g

\* the environment changes a file
FsChange(p, s) ==
    /\ p \in DOMAIN fs
    /\ s \in FsStatesOf(p)
    /\ s # fs[p]
    /\ fs' = [fs EXCEPT ![p] = s]
    /\ res' = NoRes
    /\ UNCHANGED <<bf, grp, mpg>>

\* bf = cls(path, gzipped, possibly_empty)
Construct(cls, path, gzipped, possibly_empty) ==
    \E made \in {Biofile_init(fs, cls, path, gzipped, possibly_empty)} :
       /\ bf' = made.obj
       /\ res' = [op |-> "Biofile", cls |-> cls, path |-> path, gzipped |-> gzipped,
                  possibly_empty |-> possibly_empty,
                  extension |-> get_extension(path, gzipped),
                  outcome |-> made.outcome]
       /\ UNCHANGED <<fs, grp, mpg>>

\* mutant: a validate() that raises marks the object as not validated
Validate_resets_flag ==
    /\ bf # None
    /\ \E r \in {validate(fs, bf)} :
          /\ bf' = [bf EXCEPT !.validated = (r = "ok")]
          /\ res' = [op |-> "validate", cls |-> bf.cls, path |-> bf.path,
                     gzipped |-> bf.gzipped, possibly_empty |-> bf.possibly_empty,
                     extension |-> bf.extension, outcome |-> r]
    /\ UNCHANGED <<fs, grp, mpg>>

\* bf.validate()
Validate ==
    /\ bf # None
    /\ \E r \in {validate(fs, bf)} :
          /\ bf' = IF r = "ok" THEN [bf EXCEPT !.validated = TRUE] ELSE bf
          /\ res' = [op |-> "validate", cls |-> bf.cls, path |-> bf.path,
                     gzipped |-> bf.gzipped, possibly_empty |-> bf.possibly_empty,
                     extension |-> bf.extension, outcome |-> r]
    /\ UNCHANGED <<fs, grp, mpg>>

\* bf.path
GetPath ==
    /\ bf # None
    /\ \E r \in {Biofile_path(fs, bf)} :
          /\ bf' = accessed(bf, r)
          /\ res' = [op |-> "path", cls |-> bf.cls, path |-> bf.path,
                     gzipped |-> bf.gzipped, possibly_empty |-> bf.possibly_empty,
                     extension |-> bf.extension, validates |-> r.validates,
                     outcome |-> r.outcome, value |-> r.value]
    /\ UNCHANGED <<fs, grp, mpg>>

\* bf.name
GetName ==
    /\ bf # None
    /\ \E r \in {Biofile_name(fs, bf)} :
          /\ bf' = accessed(bf, r)
          /\ res' = [op |-> "name", cls |-> bf.cls, path |-> bf.path,
                     gzipped |-> bf.gzipped, possibly_empty |-> bf.possibly_empty,
                     extension |-> bf.extension, validates |-> r.validates,
                     outcome |-> r.outcome, value |-> r.value]
    /\ UNCHANGED <<fs, grp, mpg>>

NextFile ==
    \/ \E p \in DOMAIN fs, s \in FsStates : FsChange(p, s)
    \/ \E cls \in FileClasses, path \in FileNames, gzipped \in BOOLEAN,
          possibly_empty \in BOOLEAN :
          /\ gzipped \in gzipped_args(cls)
          /\ Construct(cls, path, gzipped, possibly_empty)
    \/ Validate
    \/ GetPath
    \/ GetName

SpecFile == InitFile /\ [][NextFile]_vars

(***************************************************************************)
(* One BiofileGroup and the files it names.                                *)
(***************************************************************************)
S_b_fasta == <<"b",".","f","a","s","t","a">>
S_c_FA == <<"c",".","F","A">>
S_d_fa == <<"d",".","f","a">>

\* the paths a BiofileGroup is made of
GroupNames == {S_a_fa, S_b_fasta, S_c_FA, S_d_fa}

\* the classes a BiofileGroup is made from
GroupClasses == {"Biofile", "Fasta"}

\* the sequences over S of length 0..n
SeqsUpTo(S, n) == UNION {[1..k -> S] : k \in 0..n}

InitGroup ==
    /\ fs \in [GroupNames -> FsStates]
    /\ bf = None
    /\ grp = None
    /\ mpg = None
    /\ res = NoRes

\* grp = BiofileGroup(paths, filetype, gzipped=..., possibly_empty=...)
GroupConstruct(paths, filetype, gzipped, possibly_empty) ==
    /\ grp = None
    /\ res = NoRes
    /\ \E made \in {BiofileGroup_init(fs, paths, filetype, gzipped, possibly_empty)} :
          /\ grp' = made.obj
          /\ res' = [op |-> "BiofileGroup", paths |-> paths, filetype |-> filetype,
                     gzipped |-> gzipped, possibly_empty |-> possibly_empty,
                     outcome |-> made.outcome]
    /\ UNCHANGED <<fs, bf, mpg>>

\* len(grp)
GroupLen ==
    /\ grp # None
    /\ res' = [op |-> "len", paths |-> grp.paths, outcome |-> "ok",
               value |-> BiofileGroup_len(grp)]
    /\ UNCHANGED <<fs, bf, grp, mpg>>

\* grp.validate()
GroupValidate ==
    /\ grp # None
    /\ res' = [op |-> "validate", paths |-> grp.paths,
               outcome |-> BiofileGroup_validate(fs, grp)]
    /\ UNCHANGED <<fs, bf, grp, mpg>>

\* grp[i]
GroupGetItem(i) ==
    /\ grp # None
    /\ i \in 1..BiofileGroup_len(grp)
    /\ \E r \in {BiofileGroup_getitem_call(fs, grp, i)} :
          /\ grp' = accessed(grp, r)
          /\ res' = [op |-> "getitem", paths |-> grp.paths, index |-> i,
                     validates |-> r.validates, outcome |-> r.outcome,
                     value |-> r.value]
    /\ UNCHANGED <<fs, bf, mpg>>

\* grp.biofiles[i].path
GroupBiofilePath(i) ==
    /\ grp # None
    /\ i \in 1..BiofileGroup_len(grp)
    /\ \E bs \in {BiofileGroup_biofiles(fs, grp)} :
          /\ bs.outcome = "ok"
          /\ \E r \in {Biofile_path(fs, bs.value[i])} :
                /\ grp' = [accessed(grp, bs) EXCEPT
                             !.biofiles[i] = accessed(bs.value[i], r)]
                /\ res' = [op |-> "path", paths |-> grp.paths, index |-> i,
                           validates |-> bs.validates \/ r.validates,
                           outcome |-> r.outcome, value |-> r.value]
    /\ UNCHANGED <<fs, bf, mpg>>

\* grp.biofiles[i].name
GroupBiofileName(i) ==
    /\ grp # None
    /\ i \in 1..BiofileGroup_len(grp)
    /\ \E bs \in {BiofileGroup_biofiles(fs, grp)} :
          /\ bs.outcome = "ok"
          /\ \E r \in {Biofile_name(fs, bs.value[i])} :
                /\ grp' = [accessed(grp, bs) EXCEPT
                             !.biofiles[i] = accessed(bs.value[i], r)]
                /\ res' = [op |-> "name", paths |-> grp.paths, index |-> i,
                           validates |-> bs.validates \/ r.validates,
                           outcome |-> r.outcome, value |-> r.value]
    /\ UNCHANGED <<fs, bf, mpg>>

NextGroup ==
    \/ \E p \in DOMAIN fs, s \in FsStates : FsChange(p, s)
    \/ /\ res = NoRes
       /\ \E paths \in SeqsUpTo(GroupNames, MaxGroupLen), filetype \in GroupClasses,
             gzipped \in BOOLEAN, possibly_empty \in BOOLEAN :
             GroupConstruct(paths, filetype, gzipped, possibly_empty)
    \/ GroupLen
    \/ GroupValidate
    \/ \E i \in 1..MaxGroupLen : GroupGetItem(i)
    \/ \E i \in 1..MaxGroupLen : GroupBiofilePath(i)
    \/ \E i \in 1..MaxGroupLen : GroupBiofileName(i)

SpecGroup == InitGroup /\ [][NextGroup]_vars

(***************************************************************************)
(* One MatchedPrefixGroup over groups of Fastq files that exist.           *)
(***************************************************************************)
S_s_1_fq == <<"s",".","1",".","f","q">>
S_s_2_fq == <<"s",".","2",".","f","q">>
S_x_2_fq == <<"x",".","2",".","f","q">>

\* the paths the member groups are made of
MatchedNames == {S_s_1_fq, S_s_2_fq, S_x_2_fq}

\* the path sequences of one member group: 1..MaxGroupLen distinct paths
MatchedPaths ==
    {ps \in SeqsUpTo(MatchedNames, MaxGroupLen) :
        /\ ps # <<>>
        /\ \A i, j \in 1..Len(ps) : i # j => ps[i] # ps[j]}

\* the path sequences of the member groups: 0..MaxGroups groups
MatchedInputs == SeqsUpTo(MatchedPaths, MaxGroups)

InitMatched ==
    /\ fs = [p \in MatchedNames |-> "nonempty"]
    /\ bf = None
    /\ grp = None
    /\ mpg = None
    /\ res = NoRes

\* mpg = MatchedPrefixGroup([BiofileGroup(paths, Fastq) for paths in pathseqs])
MatchedConstruct(pathseqs) ==
    /\ mpg = None
    /\ res = NoRes
    /\ \E groups \in {List([i \in 1..Len(pathseqs) |->
                         BiofileGroup_init(fs, pathseqs[i], "Fastq", FALSE, FALSE)])} :
          /\ \A i \in 1..Len(groups) : groups[i].outcome = "ok"
          /\ \E made \in {MatchedPrefixGroup_init(
                             fs, List([i \in 1..Len(groups) |-> groups[i].obj]))} :
                /\ mpg' = made.obj
                /\ res' = [op |-> "MatchedPrefixGroup", groups |-> pathseqs,
                           outcome |-> made.outcome]
    /\ UNCHANGED <<fs, bf, grp>>

\* mpg.validate()
MatchedValidate ==
    /\ mpg # None
    /\ res' = [op |-> "validate", groups |-> res.groups,
               outcome |-> MatchedPrefixGroup_validate(fs, mpg)]
    /\ UNCHANGED <<fs, bf, grp, mpg>>

\* len(mpg)
MatchedLen ==
    /\ mpg # None
    /\ \E r \in {MatchedPrefixGroup_len(mpg)} :
          res' = [op |-> "len", groups |-> res.groups, outcome |-> r.outcome,
                  value |-> r.value]
    /\ UNCHANGED <<fs, bf, grp, mpg>>

\* mpg[i]
MatchedGetItem(i) ==
    /\ mpg # None
    /\ \E r \in {MatchedPrefixGroup_getitem(fs, mpg, i)} :
          res' = [op |-> "getitem", groups |-> res.groups, index |-> i,
                  outcome |-> r.outcome, value |-> r.value]
    /\ UNCHANGED <<fs, bf, grp, mpg>>

NextMatched ==
    \/ /\ res = NoRes
       /\ \E pathseqs \in MatchedInputs : MatchedConstruct(pathseqs)
    \/ MatchedValidate
    \/ MatchedLen
    \/ \E i \in 1..MaxGroupLen : MatchedGetItem(i)

SpecMatched == InitMatched /\ [][NextMatched]_vars

(***************************************************************************)
(* Claims about one Biofile (SpecFile).  res is the last call and its      *)
(* outcome; a change of the filesystem clears it, so where res is set the  *)
(* filesystem is the one the call saw.                                     *)
(***************************************************************************)
Constructing == res.op = "Biofile"

\* the declared gzipped flag disagrees with the resolved extension
GzipMismatch ==
    \/ res.gzipped /\ ~contains(res.extension, <<".","g","z">>)
    \/ ~res.gzipped /\ contains(res.extension, <<"g","z">>)

\* the class has a finite extension list and the extension is not in it
ExtensionUnsupported ==
    /\ extensions(res.cls) # {ANY}
    /\ lower(res.extension) \notin extensions(res.cls)

\* the path is not a directory and the emptiness check has nothing to raise
PassesDirAndEmptiness ==
    /\ stat(fs, res.path) # "dir"
    /\ \/ res.possibly_empty
       \/ res.cls # "CentrifugeDB" /\ stat(fs, res.path) = "nonempty"
       \/ /\ res.cls = "CentrifugeDB"
          /\ \A i \in 1..3 : stat(fs, idx_paths(res.cls, res.path)[i]) = "nonempty"

\* C1: validate raises the error of the first failing check in the order
\* not-a-directory, non-empty, gzip, extension: a directory gives TypeError
\* whatever else is wrong; a zero-size file with possibly_empty = False gives
\* EmptyFileError even with a gzip mismatch or an unsupported extension (for
\* the classes that use Biofile._check_file_not_empty); a non-empty file with a
\* gzip mismatch and an unsupported extension gives GzipStatusError (for the
\* classes that use Biofile._check_gzip).
C1_FirstFailingCheck ==
    res.op \in {"Biofile", "validate"} =>
        /\ stat(fs, res.path) = "dir" => res.outcome = "TypeError"
        /\ (stat(fs, res.path) = "empty" /\ ~res.possibly_empty
                /\ res.cls # "CentrifugeDB")
              => res.outcome = "EmptyFileError"
        /\ (stat(fs, res.path) = "nonempty" /\ res.cls # "Gzipped"
                /\ GzipMismatch /\ ExtensionUnsupported)
              => res.outcome = "GzipStatusError"

C1_Witness ==
    /\ Constructing
    /\ stat(fs, res.path) = "nonempty"
    /\ GzipMismatch /\ ExtensionUnsupported
    /\ res.outcome = "GzipStatusError"

C3_MissingFile ==
    (Constructing /\ res.cls # "CentrifugeDB" /\ stat(fs, res.path) = "missing")
        => res.outcome = "FileNotFoundError"

\* C4: a binding that validated once returns success from every later
\* validate() without looking at the filesystem again.
C4_ValidateMemoized ==
    (res.op = "validate" /\ bf.validated) => res.outcome = "ok"

\* C5: for a class with a finite extension list, a non-empty file whose
\* extension, lower-cased, is in the list and whose gzipped flag is true
\* exactly when the name ends in a gz suffix constructs, and validates again
\* with the same success.
C5_AcceptedConstructs ==
    (/\ res.op \in {"Biofile", "validate"}
     /\ extensions(res.cls) # {ANY}
     /\ stat(fs, res.path) = "nonempty"
     /\ lower(res.extension) \in extensions(res.cls)
     /\ res.gzipped <=> (lower(suffix(res.path)) = <<".","g","z">>))
        => res.outcome = "ok"

\* C6: for an existing zero-size file (and a class that uses
\* Biofile._check_file_not_empty), construction with possibly_empty = False
\* fails with EmptyFileError, and with possibly_empty = True it succeeds
\* whenever the gzip and extension checks pass.
C6_EmptyFile ==
    (Constructing /\ stat(fs, res.path) = "empty" /\ res.cls # "CentrifugeDB") =>
        /\ ~res.possibly_empty => res.outcome = "EmptyFileError"
        /\ res.possibly_empty =>
              /\ res.outcome \in {"ok", "GzipStatusError", "FileExtensionError"}
              /\ (~GzipMismatch /\ ~ExtensionUnsupported /\ res.cls # "Gzipped")
                    => res.outcome = "ok"
              /\ (res.cls = "Gzipped"
                    /\ contains(lower(res.extension), <<".","g","z">>))
                    => res.outcome = "ok"

C6_Witness ==
    /\ Constructing
    /\ stat(fs, res.path) = "empty"
    /\ res.possibly_empty
    /\ res.outcome = "ok"
    /\ bf # None /\ bf.validated

(***************************************************************************)
(* Claims about one BiofileGroup (SpecGroup).                              *)
(***************************************************************************)
GroupConstructing == res.op = "BiofileGroup"

\* every path of the call is missing
AllMissing == \A i \in 1..Len(res.paths) : stat(fs, res.paths[i]) = "missing"

\* the call would succeed if every file existed with content
ConstructsOnceFilesExist ==
    BiofileGroup_init([p \in GroupNames |-> "nonempty"], res.paths, res.filetype,
                      res.gzipped, res.possibly_empty).outcome = "ok"

\* each path of the call makes a Biofile of the group's class and options
IndividuallyValid ==
    \A i \in 1..Len(res.paths) :
        Biofile_init(fs, res.filetype, res.paths[i], res.gzipped,
                     res.possibly_empty).outcome = "ok"

\* two paths of the call resolve to different extensions
ExtensionsDiffer ==
    \E i, j \in 1..Len(res.paths) :
        get_extension(res.paths[i], res.gzipped)
            # get_extension(res.paths[j], res.gzipped)

\* C7: a BiofileGroup can be constructed over paths that do not exist yet,
\* and len() of it is the number of paths.
C7_NonexistentGroup ==
    /\ (GroupConstructing /\ res.paths # <<>> /\ AllMissing
            /\ ConstructsOnceFilesExist)
          => res.outcome = "ok"
    /\ res.op = "len" => res.value = Len(res.paths)

\* C8: a constructed BiofileGroup holds at least one binding, each binding is
\* validated under the group's class and options, and all resolved extensions
\* are identical; an empty path sequence fails with ValueError, individually
\* valid paths with different extensions fail with
\* FileExtensionsNotSameError, and a failed construction returns no group.
C8_GroupInvariant ==
    /\ grp # None =>
          /\ Len(grp.biofiles) >= 1
          /\ Len(grp.biofiles) = Len(grp.paths)
          /\ grp.validated
          /\ \A i \in 1..Len(grp.biofiles) :
                /\ grp.biofiles[i].validated
                /\ grp.biofiles[i].cls = grp.filetype
                /\ grp.biofiles[i].path = grp.paths[i]
                /\ grp.biofiles[i].extension = grp.biofiles[1].extension
    /\ GroupConstructing =>
          /\ res.paths = <<>> => res.outcome = "ValueError"
          /\ (IndividuallyValid /\ ExtensionsDiffer)
                => res.outcome = "FileExtensionsNotSameError"
          /\ res.outcome # "ok" => grp = None
          /\ res.outcome = "ok" =>
                /\ grp # None
                /\ IndividuallyValid
                /\ \A i \in 1..Len(grp.biofiles) :
                      /\ grp.biofiles[i].gzipped = res.gzipped
                      /\ grp.biofiles[i].possibly_empty = res.possibly_empty

C8_Witness ==
    /\ GroupConstructing
    /\ Len(res.paths) = 2
    /\ IndividuallyValid /\ ExtensionsDiffer
    /\ res.outcome = "FileExtensionsNotSameError"
    /\ grp = None

(***************************************************************************)
(* Claims about one MatchedPrefixGroup (SpecMatched).                      *)
(***************************************************************************)
MatchedConstructing == res.op = "MatchedPrefixGroup"

\* two member groups at distinct positions have the same path sequence
HasDuplicate ==
    \E i, j \in 1..Len(res.groups) : i # j /\ res.groups[i] = res.groups[j]

\* the member groups do not all have the same length
LengthsDiffer ==
    \E i, j \in 1..Len(res.groups) : Len(res.groups[i]) # Len(res.groups[j])

\* at some index two member groups have different prefix tokens
PrefixesDiffer ==
    \E i, j \in 1..Len(res.groups) :
        \E k \in 1..Len(res.groups[i]) :
            /\ k <= Len(res.groups[j])
            /\ prefix(res.groups[i][k]) # prefix(res.groups[j][k])

\* C9: in a constructed MatchedPrefixGroup no two member groups at distinct
\* positions are structurally equal, all member groups have the same length,
\* and at every index the prefix token is the same in all member groups.
C9_MatchedInvariant ==
    mpg # None =>
        /\ mpg.validated
        /\ \A i, j \in 1..Len(mpg.groups) :
              /\ i # j => mpg.groups[i].paths # mpg.groups[j].paths
              /\ Len(mpg.groups[i].paths) = Len(mpg.groups[j].paths)
              /\ \A k \in 1..Len(mpg.groups[i].paths) :
                    prefix(mpg.groups[i].paths[k]) = prefix(mpg.groups[j].paths[k])

C9_Witness ==
    /\ mpg # None
    /\ Len(mpg.groups) = 2
    /\ Len(mpg.groups[1].paths) = 2
    /\ res.op = "validate"
    /\ res.outcome = "ok"

\* C10 as stated: member groups that do not all have the same length always
\* fail with GroupLengthError.
C10_Original ==
    (MatchedConstructing /\ LengthsDiffer) => res.outcome = "GroupLengthError"

\* C10 amended: validate applies no-self-pairing, then equal-cardinality, then
\* prefix-alignment, and the first failing check decides the error: two equal
\* member groups fail with DuplicateFilegroupError, also when the lengths
\* differ; otherwise unequal lengths fail with GroupLengthError, never with
\* PrefixMatchError; otherwise a prefix difference fails with PrefixMatchError.
C10_ErrorOrder ==
    MatchedConstructing =>
        /\ HasDuplicate => res.outcome = "DuplicateFilegroupError"
        /\ (~HasDuplicate /\ LengthsDiffer) => res.outcome = "GroupLengthError"
        /\ (~HasDuplicate /\ ~LengthsDiffer /\ PrefixesDiffer)
              => res.outcome = "PrefixMatchError"
        /\ (~HasDuplicate /\ ~LengthsDiffer /\ ~PrefixesDiffer)
              => res.outcome = "ok"

C10_Witness ==
    /\ MatchedConstructing
    /\ ~HasDuplicate /\ LengthsDiffer /\ PrefixesDiffer
    /\ res.outcome = "GroupLengthError"
    /\ mpg = None

(***************************************************************************)
(* Claims about the accessors.                                             *)
(***************************************************************************)
\* the last call read an element of the group, a path or a name
GroupAccessing == res.op \in {"getitem", "path", "name"}

C12_ItemsAndLength ==
    /\ (res.op = "len" /\ Len(res.groups) >= 1) =>
          /\ res.outcome = "ok"
          /\ \A k \in 1..Len(res.groups) : res.value = Len(res.groups[k])
    /\ (res.op = "getitem" /\ Len(res.groups) >= 1
          /\ res.index <= Len(res.groups[1])) =>
          /\ res.outcome = "ok"
          /\ res.value = [k \in 1..Len(res.groups) |-> res.groups[k][res.index]]

\* the first item of two groups of two files is read
C12_Witness ==
    /\ res.op = "getitem"
    /\ res.index = 1
    /\ res.groups = <<(<<S_s_1_fq, S_x_2_fq>>), (<<S_s_2_fq, S_x_2_fq>>)>>
    /\ res.value = <<S_s_1_fq, S_s_2_fq>>

(***************************************************************************)
(* Claims about CentrifugeDB (SpecFile).                                   *)
(***************************************************************************)
\* the last call made a CentrifugeDB on a path that is not a directory
ConstructingDB ==
    Constructing /\ res.cls = "CentrifugeDB" /\ stat(fs, res.path) # "dir"

\* the positions of the index files that are missing or of size zero
BadIdx ==
    {i \in 1..3 : stat(fs, idx_paths("CentrifugeDB", res.path)[i]) # "nonempty"}

\* the first of them
FirstBadIdx == CHOOSE i \in BadIdx : \A j \in BadIdx : i <= j

\* C13 as claimed: with possibly_empty = False a CentrifugeDB fails with
\* EmptyFileError unless the path and its three index files all exist with a
\* size above zero; with possibly_empty = True no file is checked.
C13_Original ==
    ConstructingDB =>
        /\ (~res.possibly_empty
              /\ (stat(fs, res.path) # "nonempty" \/ BadIdx # {}))
              => res.outcome = "EmptyFileError"
        /\ res.possibly_empty
              => res.outcome \notin {"EmptyFileError", "FileNotFoundError"}

\* C13: with possibly_empty = False a CentrifugeDB on a path that is not a
\* directory fails unless its three index files all exist with a size above
\* zero: the first index file that is missing or empty gives
\* FileNotFoundError when it is missing and EmptyFileError when it is empty;
\* the path itself is checked neither for existence nor for size; with
\* possibly_empty = True no file is checked for existence or size.
C13_IndexFiles ==
    ConstructingDB =>
        /\ (~res.possibly_empty /\ BadIdx # {}) =>
              res.outcome =
                 IF stat(fs, idx_paths("CentrifugeDB", res.path)[FirstBadIdx]) = "missing"
                 THEN "FileNotFoundError" ELSE "EmptyFileError"
        /\ (res.possibly_empty \/ BadIdx = {}) =>
              /\ res.outcome \in {"ok", "GzipStatusError"}
              /\ ~GzipMismatch => res.outcome = "ok"

\* a database whose path is missing is made from its three index files
C13_Witness ==
    /\ ConstructingDB
    /\ res.path = S_db
    /\ ~res.possibly_empty
    /\ stat(fs, S_db) = "missing"
    /\ BadIdx = {}
    /\ res.outcome = "ok"
    /\ bf # None /\ bf.validated

(***************************************************************************)
(* Claims about what validate and the accessors leave alone (SpecFile).    *)
(***************************************************************************)
\* one step on a constructed Biofile
FrameStep ==
    /\ (bf # None /\ res'.op = "validate" /\ res'.outcome # "ok") => bf' = bf
    /\ (bf # None /\ bf.validated /\ bf' # None) => bf'.validated
    /\ (bf # None /\ res'.op \in {"path", "name"}) =>
          /\ res'.outcome = "ok"
          /\ res'.value = bf.path
          /\ bf' = bf

\* C14: a validate() that raises changes nothing in the Biofile: validated
\* stays True and path, gzipped, possibly_empty and extension are as before;
\* validated never goes from True to False in any step; path and name
\* return the stored path without raising, whatever the file has become
C14_ValidateFrame == [][FrameStep]_vars

\* validate() has raised on a validated Biofile whose file became a directory
C14_Witness ==
    /\ res.op = "validate"
    /\ res.outcome = "TypeError"
    /\ bf # None /\ bf.validated
    /\ bf.path = res.path
    /\ stat(fs, bf.path) = "dir"

====
